---- MODULE Spec2Model ----
(***************************************************************************)
(* The incremental photo loader of src/src/components/PhotoGrid.tsx.       *)
(*                                                                         *)
(* The component keeps six pieces of React state (photos, page, loading,   *)
(* error, hasMore, initialLoaded) and three effects:                       *)
(*   - the initial-load effect (lines 22-36), run once on mount;           *)
(*   - the fetch-more effect (lines 39-61), run after a commit in which    *)
(*     page or initialLoaded changed;                                      *)
(*   - the observer effect (lines 64-78), run after a commit in which      *)
(*     hasMore or loading changed.                                         *)
(* A setter call changes the state at once; the effects of the resulting   *)
(* commit run later, in a step of their own (Render), because React runs   *)
(* passive effects asynchronously after the commit.  Until that step the   *)
(* observer installed by the previous run of the observer effect is still  *)
(* in place, and its callback may fire.                                    *)
(*                                                                         *)
(* The variables issued, applied, lastDone, firstSeen and cursorAtShort    *)
(* are history variables: they record what happened and are read by no     *)
(* guard and no assignment of the program's state.                         *)
(***************************************************************************)
EXTENDS Integers, Sequences, FiniteSets, TLC

(* Bounds of the model. PAGE_SIZE is 20 in the source (line 7); the code   *)
(* only compares data.length with it, and the model scales it down so      *)
(* that pages can be enumerated.                                           *)
PAGE_SIZE == 2
NumIds == 2
MaxPage == 3

Ids == 1..NumIds

(* A Photo as far as the component reads it: only photo.id is used.        *)
Photo == [id : Ids]

(* The payloads a successful request may deliver: up to PAGE_SIZE records, *)
(* ids repeated or not.                                                    *)
Pages == UNION {[1..n -> Photo] : n \in 0..PAGE_SIZE}

(* err.message of a failed request: the message of line 26/46, or an       *)
(* empty message of an error raised by fetch or res.json.                  *)
ErrMessages == {"Failed to fetch photos", ""}

(* useState<string | null>(null)                                           *)
NULL == "<null>"

VARIABLES
    photos, page, loading, error, hasMore, initialLoaded,
    mounted, observing, fetchDeps, observerDeps, inflight,
    issued, applied, lastDone, firstSeen, cursorAtShort

vars == <<photos, page, loading, error, hasMore, initialLoaded,
          mounted, observing, fetchDeps, observerDeps, inflight,
          issued, applied, lastDone, firstSeen, cursorAtShort>>

----------------------------------------------------------------------------
(* Pure helpers                                                            *)

IdsOf(s) == {s[i].id : i \in DOMAIN s}

IdSeq(s) == [i \in DOMAIN s |-> s[i].id]

(* The append of lines 48-52 with the filter of line 50 left out.          *)
AppendAll(prev, data) == prev \o data

(* setPhotos((prev) => ...) of lines 48-52.                                *)
AppendUnique(prev, data) ==
    LET existingIds == IdsOf(prev)
        newPhotos == SelectSeq(data, LAMBDA photo : photo.id \notin existingIds)
    IN  prev \o newPhotos

(* The comparison of lines 29 and 53 as a test for a non-empty page.       *)
FullPageNonEmpty(data) == Len(data) > 0

(* data.length === PAGE_SIZE of lines 29 and 53.                           *)
FullPage(data) == Len(data) = PAGE_SIZE

(* err.message || 'Unknown error' of lines 31 and 55.                      *)
ErrorText(message) == IF message = "" THEN "Unknown error" ELSE message

(* The request a fetch(...) call puts in flight, with the items and the    *)
(* hasMore flag as they were when it was issued (history).                 *)
Request(p) == [page |-> p, photos0 |-> photos, hasMore0 |-> hasMore]

(* History: the ids of the payloads applied so far, each at its first      *)
(* occurrence.                                                             *)
RECURSIVE NoteIds(_, _)
NoteIds(seen, ids) ==
    IF ids = <<>> THEN seen
    ELSE NoteIds(IF \E i \in DOMAIN seen : seen[i] = Head(ids)
                     THEN seen ELSE Append(seen, Head(ids)),
                 Tail(ids))

(* The records of a payload whose id occurs nowhere in old, in the         *)
(* payload's order: what a page is expected to add to the items.           *)
RECURSIVE FreshOf(_, _)
FreshOf(old, payload) ==
    IF payload = <<>> THEN <<>>
    ELSE IF \E i \in DOMAIN old : old[i].id = Head(payload).id
         THEN FreshOf(old, Tail(payload))
         ELSE <<Head(payload)>> \o FreshOf(old, Tail(payload))

(* History: the last completed request, its outcome, the number of records *)
(* of its payload, the records of the payload that were new to the items,  *)
(* and the length of photos when its continuation ran.                     *)
Done(r, ok, data) ==
    [page |-> r.page, ok |-> ok, n |-> Len(data),
     fresh |-> FreshOf(photos, data), prevLen |-> Len(photos)]

NoteDone(r, ok, data) ==
    /\ applied' = Append(applied, r.page)
    /\ lastDone' = Done(r, ok, data)
    /\ firstSeen' = IF ok THEN NoteIds(firstSeen, IdSeq(data)) ELSE firstSeen
    /\ cursorAtShort' = IF ok /\ ~FullPage(data) /\ cursorAtShort = 0
                           THEN page ELSE cursorAtShort

----------------------------------------------------------------------------
(* The state after the first commit and its effects: the initial-load      *)
(* effect has issued the request for page 1, the fetch-more effect has     *)
(* returned early (page === 1), the observer effect has installed the      *)
(* observer (hasMore, not loading).                                        *)
Init ==
    /\ photos = <<>>
    /\ page = 1
    /\ loading = FALSE
    /\ error = NULL
    /\ hasMore = TRUE
    /\ initialLoaded = FALSE
    /\ mounted = TRUE
    /\ observing = TRUE
    /\ fetchDeps = <<1, FALSE>>
    /\ observerDeps = <<TRUE, FALSE>>
    /\ inflight = {[page |-> 1, photos0 |-> <<>>, hasMore0 |-> TRUE]}
    /\ issued = <<1>>
    /\ applied = <<>>
    /\ lastDone = [page |-> 0, ok |-> TRUE, n |-> 0, fresh |-> <<>>,
                   prevLen |-> 0]
    /\ firstSeen = <<>>
    /\ cursorAtShort = 0

(* Lines 25-29, 32-33: the page-1 request resolves with an array.          *)
InitialLoadOk(r, data) ==
    /\ r \in inflight /\ r.page = 1
    /\ inflight' = inflight \ {r}
    /\ photos' = data
    /\ hasMore' = FullPage(data)
    /\ initialLoaded' = TRUE
    /\ NoteDone(r, TRUE, data)
    /\ UNCHANGED <<page, loading, error, mounted, observing, fetchDeps,
                   observerDeps, issued>>

(* Lines 25-27, 30-33: the page-1 request fails (rejected fetch, status    *)
(* not ok, or unparsable body).                                            *)
InitialLoadFail(r, message) ==
    /\ r \in inflight /\ r.page = 1
    /\ inflight' = inflight \ {r}
    /\ error' = ErrorText(message)
    /\ initialLoaded' = TRUE
    /\ NoteDone(r, FALSE, <<>>)
    /\ UNCHANGED <<photos, page, loading, hasMore, mounted, observing,
                   fetchDeps, observerDeps, issued>>

(* Lines 45-53, 56-57: a next-page request resolves with an array.         *)
FetchMoreOk(r, data) ==
    /\ r \in inflight /\ r.page # 1
    /\ inflight' = inflight \ {r}
    /\ photos' = AppendUnique(photos, data)
    /\ hasMore' = FullPage(data)
    /\ loading' = FALSE
    /\ NoteDone(r, TRUE, data)
    /\ UNCHANGED <<page, error, initialLoaded, mounted, observing, fetchDeps,
                   observerDeps, issued>>

(* Lines 45-47, 54-57: a next-page request fails.                          *)
FetchMoreFail(r, message) ==
    /\ r \in inflight /\ r.page # 1
    /\ inflight' = inflight \ {r}
    /\ error' = ErrorText(message)
    /\ loading' = FALSE
    /\ NoteDone(r, FALSE, <<>>)
    /\ UNCHANGED <<photos, page, hasMore, initialLoaded, mounted, observing,
                   fetchDeps, observerDeps, issued>>

(* Lines 67-71: the observer's callback. It can fire only while an         *)
(* observer is installed on the sentinel.                                  *)
NearEnd(isIntersecting) ==
    /\ observing
    /\ page < MaxPage
    /\ page' = IF isIntersecting THEN page + 1 ELSE page
    /\ UNCHANGED <<photos, loading, error, hasMore, initialLoaded, mounted,
                   observing, fetchDeps, observerDeps, inflight, issued,
                   applied, lastDone, firstSeen, cursorAtShort>>

(* The fetch-more effect run after every commit, as without the           *)
(* dependency list of line 61.                                             *)
FetchMoreStartsEveryCommit == ~(page = 1 \/ ~initialLoaded)

(* The guard of line 40 without its initialLoaded half.                    *)
FetchMoreStartsBeforeInitialLoad ==
    /\ fetchDeps # <<page, initialLoaded>>
    /\ ~(page = 1)

(* Lines 39-61: the fetch-more effect, run when [page, initialLoaded]      *)
(* differs from the values of its last run.                                *)
FetchMoreStarts ==
    /\ fetchDeps # <<page, initialLoaded>>
    /\ ~(page = 1 \/ ~initialLoaded)

(* The start of fetchMore without the setError(null) of line 43.           *)
FetchMoreEffectKeepsError ==
    /\ fetchDeps' = <<page, initialLoaded>>
    /\ loading' = IF FetchMoreStarts THEN TRUE ELSE loading
    /\ error' = error
    /\ inflight' = IF FetchMoreStarts THEN inflight \cup {Request(page)}
                                      ELSE inflight
    /\ issued' = IF FetchMoreStarts THEN Append(issued, page) ELSE issued

FetchMoreEffect ==
    /\ fetchDeps' = <<page, initialLoaded>>
    /\ loading' = IF FetchMoreStarts THEN TRUE ELSE loading
    /\ error' = IF FetchMoreStarts THEN NULL ELSE error
    /\ inflight' = IF FetchMoreStarts THEN inflight \cup {Request(page)}
                                      ELSE inflight
    /\ issued' = IF FetchMoreStarts THEN Append(issued, page) ELSE issued

(* Lines 64-78: the observer effect, run when [hasMore, loading] differs   *)
(* from the values of its last run; it reads the values of the commit,     *)
(* not the loading flag the fetch-more effect has just set.                *)
ObserverEffect ==
    /\ observerDeps' = <<hasMore, loading>>
    /\ observing' = IF observerDeps # <<hasMore, loading>>
                       THEN ~(~hasMore \/ loading)
                       ELSE observing

(* The effects of one commit of the mounted component.                     *)
Render ==
    /\ mounted
    /\ \/ fetchDeps # <<page, initialLoaded>>
       \/ observerDeps # <<hasMore, loading>>
    /\ FetchMoreEffect
    /\ ObserverEffect
    /\ UNCHANGED <<photos, page, hasMore, initialLoaded, mounted,
                   applied, lastDone, firstSeen, cursorAtShort>>

(* The view is torn down: no commit follows, and the sentinel leaves the   *)
(* document, so no intersecting entry follows either (lines 75-77). The    *)
(* effects of lines 22-36 and 39-61 return no cleanup: requests in flight  *)
(* stay in flight and their continuations still run.                       *)
Unmount ==
    /\ mounted
    /\ mounted' = FALSE
    /\ observing' = FALSE
    /\ UNCHANGED <<photos, page, loading, error, hasMore, initialLoaded,
                   fetchDeps, observerDeps, inflight, issued, applied,
                   lastDone, firstSeen, cursorAtShort>>

Next ==
    \/ \E r \in inflight, data \in Pages : InitialLoadOk(r, data)
    \/ \E r \in inflight, message \in ErrMessages : InitialLoadFail(r, message)
    \/ \E r \in inflight, data \in Pages : FetchMoreOk(r, data)
    \/ \E r \in inflight, message \in ErrMessages : FetchMoreFail(r, message)
    \/ \E isIntersecting \in BOOLEAN : NearEnd(isIntersecting)
    \/ Render
    \/ Unmount

Spec == Init /\ [][Next]_vars

(* The request for page p resolves or rejects.                             *)
Resolve(p) ==
    \E r \in inflight :
        /\ r.page = p
        /\ \/ \E data \in Pages : InitialLoadOk(r, data) \/ FetchMoreOk(r, data)
           \/ \E message \in ErrMessages :
                 InitialLoadFail(r, message) \/ FetchMoreFail(r, message)

(* Every request issued eventually resolves or rejects, and the effects    *)
(* of a commit of the mounted component eventually run.                    *)
FairSpec ==
    /\ Spec
    /\ \A p \in 1..MaxPage : WF_vars(Resolve(p))
    /\ WF_vars(Render)

----------------------------------------------------------------------------
(* Properties                                                              *)

(* A step in which the continuation of request r ran.                      *)
Completes(r) == r \in inflight /\ inflight' = inflight \ {r} /\ applied' # applied

(* C1: in every reachable state items holds no two records with the same   *)
(* id, and the records appear in the order their ids were first seen,      *)
(* whatever the pages were (ids repeated inside a page included).          *)
C1_NoDuplicateIds ==
    /\ \A i, j \in DOMAIN photos : i # j => photos[i].id # photos[j].id
    /\ IdSeq(photos) = firstSeen

(* C2: at most one page request is outstanding at any time, however the    *)
(* near-end events interleave with the starts and the completions of the   *)
(* fetches.                                                                *)
C2_AtMostOneOutstanding == Cardinality(inflight) <= 1

(* C3: when a fetch fails, items and hasMore have the values they had      *)
(* when that fetch started, lastError is a non-empty string and isFetching *)
(* is false once the failure is handled; a failed initial load leaves      *)
(* items empty and hasMore true.                                           *)
C3_FailureLeavesState ==
    [][\A r \in inflight :
         (Completes(r) /\ ~lastDone'.ok) =>
            /\ photos' = r.photos0
            /\ hasMore' = r.hasMore0
            /\ error' # NULL /\ error' # ""
            /\ loading' = FALSE
            /\ (r.page = 1 => photos' = <<>> /\ hasMore' = TRUE)]_vars

(* C4: a failed next-page fetch leaves the cursor unchanged, and the       *)
(* request that follows the failure asks for the page that failed.         *)
C4_RetrySamePage ==
    [][/\ \A r \in inflight :
            (Completes(r) /\ ~lastDone'.ok) => page' = page
       /\ (Len(issued') > Len(issued) /\ lastDone.page > 1 /\ ~lastDone.ok)
            => issued'[Len(issued')] = lastDone.page]_vars

(* C5: hasMore is monotone: once false, it is false in every later state.  *)
C5_HasMoreMonotone == [][hasMore = FALSE => hasMore' = FALSE]_vars

(* C6: when a page returns fewer than PAGE_SIZE records hasMore becomes    *)
(* false, and no near-end event after that causes a request: every page    *)
(* requested is at most the cursor of the moment the short page arrived.   *)
C6_NoFetchAfterShortPage ==
    [][/\ \A r \in inflight :
            (Completes(r) /\ lastDone'.ok /\ lastDone'.n < PAGE_SIZE)
                => hasMore' = FALSE
       /\ cursorAtShort' > 0 =>
            \A i \in DOMAIN issued' : issued'[i] <= cursorAtShort']_vars

(* C7: after the view is torn down no part of the loader state is written. *)
C7_NoWriteAfterTeardown ==
    [][~mounted => UNCHANGED <<photos, hasMore, error, loading, page>>]_vars

(* C8: a near-end event that fires while hasMore is false or a fetch is in *)
(* flight (the page-1 fetch included) leaves the cursor unchanged.         *)
C8_NearEndNoOpWhileBusy ==
    [][page' # page => (hasMore /\ inflight = {})]_vars

(* C9: pages are requested in strictly increasing order and the responses  *)
(* are applied in the order of the requests.                               *)
C9_AppliedInRequestOrder ==
    /\ \A i, j \in DOMAIN issued : i < j => issued[i] < issued[j]
    /\ Len(applied) <= Len(issued)
    /\ \A i \in DOMAIN applied : applied[i] = issued[i]

(* The scenario of C10: 20 unique items loaded, then a page of 15 records  *)
(* of which 3 repeat earlier ids.                                          *)
ScenarioPage1 == [i \in 1..20 |-> [id |-> i]]
ScenarioPage2 == [i \in 1..15 |-> [id |-> i + 17]]

(* C10: when a next-page fetch succeeds with page P, the new items are the *)
(* old items followed by exactly the records of P whose id does not occur  *)
(* in the old items, in P's order; 20 items and a page of 15 with 3        *)
(* repeated ids give 32 items.                                             *)
C10_AppendsNewRecords ==
    [][/\ Len(AppendUnique(ScenarioPage1, ScenarioPage2)) = 32
       /\ \A r \in inflight :
            (Completes(r) /\ lastDone'.ok /\ r.page # 1)
                => photos' = photos \o lastDone'.fresh]_vars

(* A next-page fetch has succeeded with a page holding both a record whose *)
(* id was already in the items and a record whose id was new.              *)
C10_Witness ==
    /\ lastDone.ok /\ lastDone.page > 1
    /\ lastDone.prevLen > 0
    /\ Len(lastDone.fresh) > 0
    /\ Len(lastDone.fresh) < lastDone.n
    /\ Len(photos) = lastDone.prevLen + Len(lastDone.fresh)

(* s is an initial segment of t.                                           *)
IsPrefix(s, t) == Len(s) <= Len(t) /\ \A i \in DOMAIN s : s[i] = t[i]

(* C11: items grows monotonically: in every step (the replacement done by  *)
(* the initial load and the failures included) the old items are a prefix  *)
(* of the new items, so no record is ever removed or reordered.            *)
C11_ItemsGrowByPrefix == [][IsPrefix(photos, photos')]_vars

(* The items have grown twice: by the initial load and then by a           *)
(* next-page fetch that added records behind the ones already there.       *)
C11_Witness ==
    /\ lastDone.ok /\ lastDone.page > 1
    /\ lastDone.prevLen > 0
    /\ Len(photos) > lastDone.prevLen
    /\ applied[1] = 1

(* C12: isFetching is true in every state in which the initial page-1      *)
(* request is outstanding, and false once that request has completed       *)
(* (before any later fetch starts).                                        *)
C12_InitialLoadTogglesFetching ==
    /\ (\E r \in inflight : r.page = 1) => loading = TRUE
    /\ (applied = <<1>> /\ issued = <<1>>) => loading = FALSE

(* C13: a next-page request is issued only in a state where hasMore is     *)
(* true and no other fetch is in flight; after a short page 1 no page-2    *)
(* request is issued, even if a near-end event fired during the initial    *)
(* fetch.                                                                  *)
C13_RequestOnlyWhenAllowed ==
    [][Len(issued') > Len(issued) => (hasMore /\ inflight = {})]_vars

(* C14: every accepted near-end event advances the cursor by one and       *)
(* triggers a fetch for the new cursor value, so the pages requested are   *)
(* 1, 2, 3, ... with none skipped.                                         *)
C14_NoPageSkipped == \A i \in DOMAIN issued : issued[i] = i

C16_EachPageRequestedOnce ==
    /\ Len(issued) >= 1 /\ issued[1] = 1
    /\ \A i, j \in DOMAIN issued : i # j => issued[i] # issued[j]
    /\ Len(issued) <= page

(* The request for page 2 has failed, a further near-end event has fired   *)
(* and a further request has been issued.                                  *)
C16_Witness ==
    /\ applied = <<1, 2>>
    /\ ~lastDone.ok /\ lastDone.page = 2
    /\ Len(issued) = 3
    /\ error = NULL

(* C17: if every request issued eventually resolves or rejects, every      *)
(* next-page fetch that sets isFetching is eventually followed by a state  *)
(* with isFetching false and no request outstanding; and isFetching is     *)
(* true in every state in which a next-page request is outstanding.        *)
C17_FetchingWhileOutstanding ==
    /\ []((\E r \in inflight : r.page > 1) => loading = TRUE)
    /\ (loading = TRUE) ~> (loading = FALSE /\ inflight = {})

(* C18: in every reachable state, lastError being set implies that         *)
(* isFetching is false: an error message is never exposed together with    *)
(* the loading status.                                                     *)
C18_ErrorImpliesNotFetching == error # NULL => loading = FALSE

(* A next-page fetch, which set isFetching and cleared lastError when it    *)
(* started, has failed: its error is exposed with isFetching false.        *)
C18_Witness ==
    /\ Len(applied) >= 2 /\ applied[1] = 1
    /\ lastDone.page > 1 /\ ~lastDone.ok
    /\ error # NULL /\ loading = FALSE

====
